---- MODULE Spec2Model ----
(***************************************************************************)
(* A model of the my-pdf page: the state of PdfOperations.svelte and its   *)
(* event handlers, with the drop routing of App.svelte.                    *)
(*                                                                         *)
(* The handlers run one at a time (the browser's event loop); an async     *)
(* handler is cut at its awaits: the part before the first await is one    *)
(* action, and the part after the awaited promise settles is another.      *)
(* A File is an object with an identity (FileIds) and fixed contents: a    *)
(* name, a page count and what PDFDocument.load does with its bytes.       *)
(* Not modelled: mergedPdf, splitPdf, startPage and dragOver, which the    *)
(* script only writes and never reads.                                     *)
(***************************************************************************)
EXTENDS Integers, Sequences, FiniteSets, TLC

\* ------------------------------------------------------------------ bounds
MaxFiles == 3
MaxBatch == 2
MaxTasks == 1
MaxOps == 1
MaxGap == 1

\* ------------------------------------------------------- the files' world
\* The File objects a user can pick or drop: name, what the bytes are (a PDF,
\* garbage, or an encrypted PDF) and the page count of the document.
FileTable ==
  << [name |-> "a.pdf", kind |-> "ok",        pages |-> 3],
     [name |-> "b.pdf", kind |-> "ok",        pages |-> 2],
     [name |-> "c.txt", kind |-> "corrupt",   pages |-> 0],
     [name |-> "a.pdf", kind |-> "encrypted", pages |-> 1] >>

FileIds == 1..Len(FileTable)

\* null, as the value of draggedFile
NoFile == 0

\* null, as the value of error
NoError == "<null>"

\* file.name
FileName(f) == FileTable[f].name

\* pdfDoc.getPageCount() of the file's document
PageCount(f) == FileTable[f].pages

\* PDFDocument.load(bytes, {ignoreEncryption}): TRUE when it resolves
LoadOk(f, ignoreEnc) ==
  FileTable[f].kind = "ok" \/ (FileTable[f].kind = "encrypted" /\ ignoreEnc)

\* file.type === "application/pdf" || file.name.toLowerCase().endsWith(".pdf")
IsPdf(f) == FileName(f) \in {"a.pdf", "b.pdf"}

\* ------------------------------------------------------------ JS helpers
Digits == <<"0", "1", "2", "3", "4", "5", "6", "7", "8", "9">>

RECURSIVE ToStr(_)
\* `${n}`: the decimal digits of a non-negative integer
ToStr(n) == IF n < 10 THEN <<Digits[n + 1]>> ELSE ToStr(n \div 10) \o <<Digits[(n % 10) + 1]>>

\* `1-${totalPages}`
DefaultRange(n) == <<"1", "-">> \o ToStr(n)

Range(s) == {s[i] : i \in 1..Len(s)}

\* array.indexOf(x): 0-based, -1 when absent
IndexOf(s, x) ==
  IF \E i \in 1..Len(s) : s[i] = x
  THEN (CHOOSE i \in 1..Len(s) : s[i] = x /\ \A j \in 1..(i - 1) : s[j] # x) - 1
  ELSE -1

\* the start index Array.prototype.splice works from
SpliceStart(len, start) ==
  IF start < 0 THEN (IF len + start < 0 THEN 0 ELSE len + start)
  ELSE (IF start > len THEN len ELSE start)

\* array.splice(start, 1)
SpliceDelete(s, start) ==
  LET st == SpliceStart(Len(s), start)
  IN  IF st >= Len(s) THEN s ELSE SubSeq(s, 1, st) \o SubSeq(s, st + 2, Len(s))

\* array.splice(start, 0, x)
SpliceInsert(s, start, x) ==
  LET st == SpliceStart(Len(s), start)
  IN  SubSeq(s, 1, st) \o <<x>> \o SubSeq(s, st + 1, Len(s))

\* a filter on the name instead of the object: files.filter(file => file.name !== x.name)
FilterOutByName(s, x) == SelectSeq(s, LAMBDA y : FileName(y) # FileName(x))

\* array.filter(file => file !== x)
FilterOut(s, x) == SelectSeq(s, LAMBDA y : y # x)

\* ------------------------------------------------------ parsePageRanges
\* Strings are sequences of one-character strings.
IsSpace(c) == c = " "

IsDigit(c) == c \in Range(Digits)

DigitValue(c) == CHOOSE d \in 0..9 : Digits[d + 1] = c

RECURSIVE TrimStart(_)
TrimStart(s) == IF Len(s) > 0 /\ IsSpace(s[1]) THEN TrimStart(Tail(s)) ELSE s

RECURSIVE TrimEnd(_)
TrimEnd(s) ==
  IF Len(s) > 0 /\ IsSpace(s[Len(s)]) THEN TrimEnd(SubSeq(s, 1, Len(s) - 1)) ELSE s

\* string.trim()
Trim(s) == TrimEnd(TrimStart(s))

RECURSIVE Split(_, _)
\* string.split(sep), for a one-character separator
Split(s, sep) ==
  IF \E i \in 1..Len(s) : s[i] = sep
  THEN LET i == CHOOSE k \in 1..Len(s) : s[k] = sep /\ \A j \in 1..(k - 1) : s[j] # sep
       IN  <<SubSeq(s, 1, i - 1)>> \o Split(SubSeq(s, i + 1, Len(s)), sep)
  ELSE <<s>>

RECURSIVE Join(_)
\* the characters as one string value
Join(s) == IF Len(s) = 0 THEN "" ELSE s[1] \o Join(Tail(s))

\* NaN, and a number, as results of parseInt
NaN == [nan |-> TRUE, val |-> 0]

Num(n) == [nan |-> FALSE, val |-> n]

RECURSIVE DigitPrefix(_)
\* the leading decimal digits of a string
DigitPrefix(s) ==
  IF Len(s) > 0 /\ IsDigit(s[1]) THEN <<s[1]>> \o DigitPrefix(Tail(s)) ELSE <<>>

RECURSIVE DigitsValue(_)
DigitsValue(ds) ==
  IF Len(ds) = 0 THEN 0
  ELSE 10 * DigitsValue(SubSeq(ds, 1, Len(ds) - 1)) + DigitValue(ds[Len(ds)])

\* parseInt(s, 10): leading white space and one sign are skipped, the digits that
\* follow are read, whatever comes after them is ignored
ParseInt(s) ==
  LET t == TrimStart(s)
      signed == Len(t) > 0 /\ t[1] \in {"+", "-"}
      body == IF signed THEN Tail(t) ELSE t
      ds == DigitPrefix(body)
  IN  IF Len(ds) = 0 THEN NaN
      ELSE Num(IF signed /\ t[1] = "-" THEN 0 - DigitsValue(ds) ELSE DigitsValue(ds))

\* the result of parsePageRanges: the returned array, or the thrown Error's message
Returned(pages) == [ok |-> TRUE, pages |-> pages, msg |-> ""]

Thrown(msg) == [ok |-> FALSE, pages |-> <<>>, msg |-> msg]

\* an array push in place of pageSet.add: no collapse of duplicates
SetAddNoDedupe(s, x) == Append(s, x)

\* pageSet.add(x): a Set keeps its elements in insertion order
SetAdd(s, x) == IF x \in Range(s) THEN s ELSE Append(s, x)

RECURSIVE AddRange(_, _, _)
\* for (let i = start; i <= end; i++) pageSet.add(i)
AddRange(s, start, end) ==
  IF start > end THEN s ELSE AddRange(SetAdd(s, start), start + 1, end)

\* Array.from(pageSet) without the sort
SortNumericMissing(s) == s

\* array.sort((a, b) => a - b), a stable sort: the element at index i goes to
\* the place after all smaller elements and all equal ones before it
SortNumeric(s) ==
  LET place(i) == 1 + Cardinality({j \in 1..Len(s) : s[j] < s[i] \/ (s[j] = s[i] /\ j < i)})
  IN  [k \in 1..Len(s) |-> s[CHOOSE i \in 1..Len(s) : place(i) = k]]

\* the range test without its start > end part
RangeOutsideNoOrder(start, end, maxPages) == start < 1 \/ end > maxPages

\* start < 1 || end > maxPages || start > end
RangeOutside(start, end, maxPages) == start < 1 \/ end > maxPages \/ start > end

\* page < 1 || page > maxPages
PageOutside(page, maxPages) == page < 1 \/ page > maxPages

\* a blank test that does not trim: !input
IsBlankNoTrim(input) == Len(input) = 0

\* !input.trim()
IsBlank(input) == Len(Trim(input)) = 0

MsgInvalidRange(segment) == "Invalid page range: " \o Join(segment)

MsgRangeOutside(segment, maxPages) ==
  "Page range " \o Join(segment) \o " is outside valid range (1-" \o Join(ToStr(maxPages)) \o ")"

MsgInvalidPage(segment) == "Invalid page number: " \o Join(segment)

MsgPageOutside(page, maxPages) ==
  "Page " \o Join(ToStr(page)) \o " is outside valid range (1-" \o Join(ToStr(maxPages)) \o ")"

RECURSIVE ParseSegments(_, _, _)
\* the for loop of parsePageRanges over rangeSegments, from pageSet so far
ParseSegments(segments, pageSet, maxPages) ==
  IF Len(segments) = 0 THEN Returned(SortNumeric(pageSet))
  ELSE
    LET segment == segments[1]
    IN  IF "-" \in Range(segment)
        THEN LET parts == Split(segment, "-")
                 start == ParseInt(Trim(parts[1]))
                 end == ParseInt(Trim(parts[2]))
             IN  IF start.nan \/ end.nan THEN Thrown(MsgInvalidRange(segment))
                 ELSE IF RangeOutside(start.val, end.val, maxPages)
                      THEN Thrown(MsgRangeOutside(segment, maxPages))
                      ELSE ParseSegments(Tail(segments),
                                         AddRange(pageSet, start.val, end.val), maxPages)
        ELSE LET page == ParseInt(Trim(segment))
             IN  IF page.nan THEN Thrown(MsgInvalidPage(segment))
                 ELSE IF PageOutside(page.val, maxPages)
                      THEN Thrown(MsgPageOutside(page.val, maxPages))
                      ELSE ParseSegments(Tail(segments), SetAdd(pageSet, page.val), maxPages)

\* parsePageRanges(input, maxPages)
ParsePageRanges(input, maxPages) ==
  IF IsBlank(input) THEN Returned(<<>>)
  ELSE LET rangeSegments == [i \in 1..Len(Split(input, ",")) |-> Trim(Split(input, ",")[i])]
       IN  ParseSegments(rangeSegments, <<>>, maxPages)

\* ------------------------------------------------------------------ state
VARIABLES
  files,                 \* File[]
  totalPages,            \* number
  endPage,               \* number
  error,                 \* string | null
  draggedFile,           \* File | null
  hasProcessedFirstFile, \* boolean
  pageRangeInput,        \* string, as its characters
  tasks,                 \* the inspections suspended at an await
  ops,                   \* the merges and splits suspended at an await
  bubble,                \* files of a drop event still to reach the document listener
  last,                  \* history: the handler step that led to this state
  parseSegs,             \* a call of parsePageRanges: the segments of its input,
  parseMax,              \*   its maxPages,
  parseResult,           \*   and what it returned or threw
  nameCall,              \* a call of downloadMergedPdf or downloadSplitPdf: which,
  nameFiles,             \*   the names of the entries of `files` at the call,
  namePages,             \*   selectedPages,
  nameResult             \*   and the a.download it sets

pageVars == <<files, totalPages, endPage, error, draggedFile, hasProcessedFirstFile,
              pageRangeInput, tasks, ops, bubble, last>>

parseVars == <<parseSegs, parseMax, parseResult>>

nameVars == <<nameCall, nameFiles, namePages, nameResult>>

\* the variables of the calls of the pure functions
callVars == <<parseVars, nameVars>>

vars == <<pageVars, parseVars, nameVars>>

\* parsePageRanges has not been called
NotParsed == [ok |-> FALSE, pages |-> <<>>, msg |-> "<not called>"]

\* no download function has been called
NotNamed == <<"<", "n", "o", "t", " ", "c", "a", "l", "l", "e", "d", ">">>

\* the variables of a call of a download function, before any call
NameIdle ==
  /\ nameCall = "none"
  /\ nameFiles = <<>>
  /\ namePages = <<>>
  /\ nameResult = NotNamed

\* a suspended mergePdfs or splitPdfAtPages: the await it is at (pc), the file
\* being read (cur); for a merge the array its for...of walks (arr), whether
\* that array is still the one `files` refers to (live), the index of the next
\* read (idx), the files iterated (seen), those copied into mergedPdfDoc (out),
\* encryptedFiles (enc) and the file set at the click (start); for a split
\* selectedPages (pages) and the pageIndices given to copyPages (indices); and
\* the number of handlers run since it started (gap)
NoJob ==
  [kind |-> "none", pc |-> "", cur |-> 0, arr |-> <<>>, live |-> FALSE, idx |-> 0,
   seen |-> <<>>, out |-> <<>>, enc |-> <<>>, start |-> <<>>, pages |-> <<>>,
   indices |-> <<>>, gap |-> 0]

\* a.click() of downloadMergedPdf / downloadSplitPdf: the files whose pages the
\* document holds (from), for a split the pages taken (pages), and the files
\* the name is made from (named); kind "none" when nothing is downloaded
NoDownload == [kind |-> "none", from |-> <<>>, pages |-> <<>>, named |-> <<>>]

\* the record of a handler step: the handler, the file set, error, page
\* specification, page count and numbers of suspended inspections and of
\* suspended merges and splits before it, its arguments, how it ended, the merge
\* or split it finished and its download
Step(op, arg, res) ==
  [op |-> op, pre |-> files, arg |-> arg, res |-> res,
   perr |-> error, ptasks |-> Len(tasks), pinput |-> pageRangeInput,
   ptotal |-> totalPages, pops |-> Len(ops), job |-> NoJob, dl |-> NoDownload]

\* A handler may run while a merge or split is suspended.
Interleavable == \A i \in 1..Len(ops) : ops[i].gap < MaxGap

\* every suspended merge and split, after a handler has run meanwhile
Interleaved(os) == [i \in 1..Len(os) |-> [os[i] EXCEPT !.gap = @ + 1]]

\* the same, for a handler that has assigned `files` a new array
Detached(os) == [i \in 1..Len(os) |-> [os[i] EXCEPT !.live = FALSE, !.gap = @ + 1]]

PageInit ==
  /\ files = <<>>
  /\ totalPages = 0
  /\ endPage = 1
  /\ error = NoError
  /\ draggedFile = NoFile
  /\ hasProcessedFirstFile = FALSE
  /\ pageRangeInput = <<>>
  /\ tasks = <<>>
  /\ ops = <<>>
  /\ bubble = <<>>
  /\ last = [op |-> "init", pre |-> <<>>, arg |-> <<>>, res |-> "",
             perr |-> NoError, ptasks |-> 0, pinput |-> <<>>, ptotal |-> 0,
             pops |-> 0, job |-> NoJob, dl |-> NoDownload]

Init ==
  /\ PageInit
  /\ parseSegs = <<>>
  /\ parseMax = 0
  /\ parseResult = NotParsed
  /\ NameIdle

\* ------------------------------------------------------------- messages
ErrDuplicate == "All selected files are already added. Duplicate filenames are not allowed."

\* "Error reading PDF: " + e.message
ErrReading == "Error reading PDF: <message>"

\* ------------------------------------------------------ processNewFiles
\* new Set(files.map((f) => f.name))
ExistingFileNames(fs) == {FileName(fs[i]) : i \in 1..Len(fs)}

\* a filter on the object instead of the name: newFiles.filter(file => !files.includes(file))
UniqueNewFilesByIdentity(fs, newFiles) == SelectSeq(newFiles, LAMBDA f : f \notin Range(fs))

\* the right filter, with the kept files in reverse order
UniqueNewFilesReversed(fs, newFiles) ==
  LET kept == SelectSeq(newFiles, LAMBDA f : FileName(f) \notin ExistingFileNames(fs))
  IN  [i \in 1..Len(kept) |-> kept[Len(kept) + 1 - i]]

\* newFiles.filter((file) => !existingFileNames.has(file.name))
UniqueNewFiles(fs, newFiles) ==
  SelectSeq(newFiles, LAMBDA f : FileName(f) \notin ExistingFileNames(fs))

\* the test without its second part: files.length === 1
NeedsInspectionOnlyOne(fs, processed) == Len(fs) = 1

\* files.length === 1 || (!hasProcessedFirstFile && files.length > 0)
NeedsInspection(fs, processed) == Len(fs) = 1 \/ (~processed /\ Len(fs) > 0)

\* processNewFiles(newFiles), up to its first await or, when it awaits nothing,
\* to its end.  newFiles is not empty.
ProcessNewFiles(newFiles) ==
  LET uniqueNewFiles == UniqueNewFiles(files, newFiles)
      added == files \o uniqueNewFiles
  IN  IF Len(uniqueNewFiles) = 0
      THEN /\ error' = ErrDuplicate
           /\ last' = Step("add", newFiles, "duplicates")
           /\ ops' = Interleaved(ops)
           /\ UNCHANGED <<files, totalPages, endPage, hasProcessedFirstFile,
                          pageRangeInput, tasks>>
      ELSE /\ Len(added) <= MaxFiles
           /\ files' = added
           /\ ops' = Detached(ops)
           /\ IF NeedsInspection(added, hasProcessedFirstFile)
              THEN /\ Len(tasks) < MaxTasks
                   /\ tasks' = Append(tasks, [src |-> "processNewFiles", file |-> added[1]])
                   /\ error' = error
              ELSE /\ tasks' = tasks
                   /\ error' = NoError
           /\ last' = Step("add", newFiles, "added")
           /\ UNCHANGED <<totalPages, endPage, hasProcessedFirstFile, pageRangeInput>>

\* handleGlobalDrop(event), with event.dataTransfer.files = dropped
HandleGlobalDrop(dropped) ==
  LET newFiles == SelectSeq(dropped, IsPdf)
  IN  IF Len(newFiles) > 0
      THEN ProcessNewFiles(newFiles)
      ELSE /\ last' = Step("drop", dropped, "ignored")
           /\ ops' = Interleaved(ops)
           /\ UNCHANGED <<files, totalPages, endPage, error, hasProcessedFirstFile,
                          pageRangeInput, tasks>>

\* No event is in the middle of its dispatch: a drop on the file-input area
\* reaches the document listener before any other handler runs.
Idle == Len(bubble) = 0

\* File objects the page does not hold yet: every pick or drop makes new ones
Fresh(f) ==
  /\ f \notin Range(files)
  /\ f # draggedFile
  /\ f \notin Range(bubble)
  /\ \A i \in 1..Len(tasks) : tasks[i].file # f

\* the file lists of a drop: distinct File objects, possibly with equal names
Batches ==
  {b \in UNION {[1..n -> FileIds] : n \in 1..MaxBatch} :
     /\ \A i \in 1..Len(b) : Fresh(b[i])
     /\ \A i, j \in 1..Len(b) : i # j => b[i] # b[j]}

\* the file lists of the picker: files of one directory, so with distinct names
PickerBatches ==
  {b \in Batches : \A i, j \in 1..Len(b) : i # j => FileName(b[i]) # FileName(b[j])}

\* handleFileSelect(event): the picker's change event
HandleFileSelect(batch) ==
  /\ Idle
  /\ Interleavable
  /\ UNCHANGED callVars
  /\ ProcessNewFiles(batch)
  /\ UNCHANGED <<draggedFile, bubble>>

\* App.svelte's handleDrop, for a drop outside the file-input area and the list
AppHandleDrop(batch) ==
  /\ Idle
  /\ Interleavable
  /\ UNCHANGED callVars
  /\ HandleGlobalDrop(batch)
  /\ UNCHANGED <<draggedFile, bubble>>

\* the on:drop of the file-input area; the event then bubbles to the document
InputAreaDrop(batch) ==
  /\ Idle
  /\ Interleavable
  /\ UNCHANGED callVars
  /\ HandleGlobalDrop(batch)
  /\ bubble' = batch
  /\ UNCHANGED draggedFile

\* App.svelte's handleDrop, for the event that bubbled from the file-input area
BubbledDrop ==
  /\ Len(bubble) > 0
  /\ UNCHANGED callVars
  /\ HandleGlobalDrop(bubble)
  /\ bubble' = <<>>
  /\ UNCHANGED draggedFile

\* --------------------------------------------------- reorder by dragging
\* handleDragStart(file), on an entry of the merge list
HandleDragStart(file) ==
  /\ Idle
  /\ Interleavable
  /\ UNCHANGED callVars
  /\ Len(files) >= 2
  /\ file \in Range(files)
  /\ draggedFile' = file
  /\ last' = Step("dragstart", <<file>>, "")
  /\ ops' = Interleaved(ops)
  /\ UNCHANGED <<files, totalPages, endPage, error, hasProcessedFirstFile,
                 pageRangeInput, tasks, bubble>>

\* the two splices with the target's index taken after the first splice
ReorderedTargetAfterDelete(fs, dragged, target) ==
  LET removed == SpliceDelete(fs, IndexOf(fs, dragged))
  IN  SpliceInsert(removed, IndexOf(removed, target), dragged)

\* the two splices of handleDrop
Reordered(fs, dragged, target) ==
  LET draggedIndex == IndexOf(fs, dragged)
      targetIndex == IndexOf(fs, target)
  IN  SpliceInsert(SpliceDelete(fs, draggedIndex), targetIndex, dragged)

\* the suspended merges after handleDrop: the two splices change the array in
\* place, so also for a for...of that walks it; `files = [...files]` then makes
\* `files` another array
SplicedUnder(os, dragged, target) ==
  [i \in 1..Len(os) |->
     IF os[i].live
     THEN [os[i] EXCEPT !.arr = Reordered(os[i].arr, dragged, target), !.live = FALSE,
                        !.gap = @ + 1]
     ELSE [os[i] EXCEPT !.gap = @ + 1]]

\* handleDrop(event, targetFile), on an entry of the merge list
HandleDrop(targetFile) ==
  /\ Idle
  /\ Interleavable
  /\ UNCHANGED callVars
  /\ Len(files) >= 2
  /\ targetFile \in Range(files)
  /\ IF draggedFile # NoFile /\ draggedFile # targetFile
     THEN /\ files' = Reordered(files, draggedFile, targetFile)
          /\ ops' = SplicedUnder(ops, draggedFile, targetFile)
     ELSE /\ ops' = Interleaved(ops)
          /\ UNCHANGED files
  /\ draggedFile' = NoFile
  /\ last' = Step("reorder", <<draggedFile, targetFile>>, "")
  /\ UNCHANGED <<totalPages, endPage, error, hasProcessedFirstFile,
                 pageRangeInput, tasks, bubble>>

\* handleDragEnd(event), on an entry of the merge list
HandleDragEnd ==
  /\ Idle
  /\ Interleavable
  /\ UNCHANGED callVars
  /\ Len(files) >= 2
  /\ draggedFile' = NoFile
  /\ last' = Step("dragend", <<>>, "")
  /\ ops' = Interleaved(ops)
  /\ UNCHANGED <<files, totalPages, endPage, error, hasProcessedFirstFile,
                 pageRangeInput, tasks, bubble>>

\* ------------------------------------------------------ remove and reset
\* resetPdfState()
ResetPdfState ==
  /\ totalPages' = 0
  /\ endPage' = 1
  /\ pageRangeInput' = <<>>
  /\ hasProcessedFirstFile' = FALSE

\* removeFile(fileToRemove), on the Remove button of an entry
RemoveFile(fileToRemove) ==
  LET remaining == FilterOut(files, fileToRemove)
      reinspect == Len(remaining) > 0 /\ fileToRemove = remaining[1]
  IN  /\ Idle
      /\ Interleavable
      /\ UNCHANGED callVars
      /\ fileToRemove \in Range(files)
      /\ files' = remaining
      /\ ops' = Detached(ops)
      /\ IF reinspect
         THEN /\ Len(tasks) < MaxTasks
              /\ tasks' = Append(tasks, [src |-> "updateSplitInfo", file |-> remaining[1]])
         ELSE tasks' = tasks
      /\ IF Len(remaining) = 0
         THEN ResetPdfState
         ELSE UNCHANGED <<totalPages, endPage, pageRangeInput, hasProcessedFirstFile>>
      /\ last' = Step("remove", <<fileToRemove>>, "")
      /\ UNCHANGED <<error, draggedFile, bubble>>

\* a reset that calls resetPdfState() and forgets the error message
ResetAllKeepsError ==
  /\ Idle
  /\ Interleavable
  /\ UNCHANGED callVars
  /\ Len(files) > 0
  /\ files' = <<>>
  /\ ops' = Detached(ops)
  /\ ResetPdfState
  /\ last' = Step("reset", <<>>, "")
  /\ UNCHANGED <<error, draggedFile, tasks, bubble>>

\* resetAll(), on the Reset All button
ResetAll ==
  /\ Idle
  /\ Interleavable
  /\ UNCHANGED callVars
  /\ Len(files) > 0
  /\ files' = <<>>
  /\ ops' = Detached(ops)
  /\ totalPages' = 0
  /\ endPage' = 1
  /\ error' = NoError
  /\ hasProcessedFirstFile' = FALSE
  /\ pageRangeInput' = <<>>
  /\ last' = Step("reset", <<>>, "")
  /\ UNCHANGED <<draggedFile, tasks, bubble>>

\* ------------------------------------------ the end of an inspection
\* the rest of processNewFiles or updateSplitInfo once file.arrayBuffer() and
\* PDFDocument.load() have settled
InspectionSettles(i) ==
  LET t == tasks[i]
      ok == LoadOk(t.file, FALSE)
      fromAdd == t.src = "processNewFiles"
  IN  /\ Idle
      /\ UNCHANGED callVars
      /\ tasks' = SubSeq(tasks, 1, i - 1) \o SubSeq(tasks, i + 1, Len(tasks))
      /\ IF ok
         THEN /\ totalPages' = PageCount(t.file)
              /\ endPage' = PageCount(t.file)
              /\ pageRangeInput' = DefaultRange(PageCount(t.file))
              /\ hasProcessedFirstFile' = (fromAdd \/ hasProcessedFirstFile)
         ELSE UNCHANGED <<totalPages, endPage, pageRangeInput, hasProcessedFirstFile>>
      /\ error' = IF fromAdd THEN NoError ELSE IF ok THEN error ELSE ErrReading
      /\ last' = Step(IF fromAdd THEN "addInspected" ELSE "updateInspected",
                      <<t.file>>, IF ok THEN "loaded" ELSE "failed")
      /\ UNCHANGED <<files, ops, draggedFile, bubble>>

\* ------------------------------------------------- the page specification
\* What the user types into the page-range field.
EditTexts == { <<" ">>, <<"3", ",", "1">> }

\* bind:value={pageRangeInput}: the field is rendered in split mode only
EditPageRange(text) ==
  /\ Idle
  /\ Interleavable
  /\ UNCHANGED callVars
  /\ Len(files) = 1
  /\ text # pageRangeInput
  /\ pageRangeInput' = text
  /\ ops' = Interleaved(ops)
  /\ last' = Step("edit", <<>>, "")
  /\ UNCHANGED <<files, totalPages, endPage, error, draggedFile, hasProcessedFirstFile,
                 tasks, bubble>>

\* ------------------------------------------------------ merge and split
\* let ignoreEncryption: boolean = false; nothing assigns or binds it
ignoreEncryption == FALSE

ErrExactlyOne == "Please select exactly one PDF file to split"

ErrNoPages == "Please select at least one page"

\* "Error splitting PDF: " + e.message
ErrSplitting == "Error splitting PDF: <message>"

\* "Error merging PDFs: " + e.message
ErrMerging == "Error merging PDFs: <message>"

ErrAllEncrypted == "Could not merge any files. All PDFs are encrypted and could not be processed."

ErrNoPagesMerged == "No pages could be merged from the selected files."

RECURSIVE JoinNames(_)
\* encryptedFiles.join(", ")
JoinNames(fs) ==
  IF Len(fs) = 0 THEN ""
  ELSE IF Len(fs) = 1 THEN FileName(fs[1])
  ELSE FileName(fs[1]) \o ", " \o JoinNames(Tail(fs))

ErrProtected(enc) ==
  "The following files are password-protected: " \o JoinNames(enc)
    \o ". Enable \"Ignore encryption\" option to attempt merging anyway."

\* a split section shown for every non-empty set
SplitShownNonEmpty(fs) == Len(fs) >= 1

\* {:else if files.length === 1}: the split section, with the Split PDF button
SplitShown(fs) == Len(fs) = 1

\* {:else if files.length >= 2}, disabled={files.length < 2}: the Merge PDFs button
MergeShown(fs) == Len(fs) >= 2

\* {#if files.length === 0}: the empty-state text, and no operation
EmptyShown(fs) == Len(fs) = 0

RECURSIVE DocPages(_)
\* mergedPdfDoc.getPageCount(), for the files whose pages were copied into it
DocPages(out) == IF Len(out) = 0 THEN 0 ELSE PageCount(out[1]) + DocPages(Tail(out))

\* a load error counts as an encryption error: fileError.message.includes("encrypted")
IsEncryptionError(f, ignoreEnc) == ~LoadOk(f, ignoreEnc) /\ FileTable[f].kind = "encrypted"

\* mergePdfs after its loop, without the test of encryptedFiles
MergeOutcomeIgnoringEncrypted(nEncrypted, nFiles, pageCount, ignoreEnc) ==
  IF pageCount > 0 THEN "save" ELSE "noPages"

\* mergePdfs after its loop: what it does for encryptedFiles.length,
\* files.length, mergedPdfDoc.getPageCount() and ignoreEncryption
MergeOutcome(nEncrypted, nFiles, pageCount, ignoreEnc) ==
  IF nEncrypted > 0 /\ ~ignoreEnc THEN "protected"
  ELSE IF nEncrypted > 0 /\ nEncrypted = nFiles THEN "allEncrypted"
  ELSE IF pageCount > 0 THEN "save"
  ELSE "noPages"

\* an end of mergePdfs that leaves error as it is
MergeErrorUnset(outcome, enc) == NoError

\* the error message mergePdfs sets for an outcome other than "save"
MergeError(outcome, enc) ==
  IF outcome = "protected" THEN ErrProtected(enc)
  ELSE IF outcome = "allEncrypted" THEN ErrAllEncrypted
  ELSE ErrNoPagesMerged

\* ops without its i-th entry
Finished(i) == SubSeq(ops, 1, i - 1) \o SubSeq(ops, i + 1, Len(ops))

\* mergePdfs(), on the Merge PDFs button, up to the file.arrayBuffer() of the
\* first file.  `await PDFDocument.create()` reads nothing and settles before
\* any other event is dispatched.
MergePdfs ==
  /\ Idle
  /\ UNCHANGED callVars
  /\ MergeShown(files)
  /\ Len(ops) < MaxOps
  /\ error' = NoError
  /\ ops' = Append(ops, [NoJob EXCEPT !.kind = "merge", !.pc = "file", !.cur = files[1],
                                      !.arr = files, !.live = TRUE, !.idx = 2,
                                      !.start = files])
  /\ last' = Step("merge", <<>>, "started")
  /\ UNCHANGED <<files, totalPages, endPage, draggedFile, hasProcessedFirstFile,
                 pageRangeInput, tasks, bubble>>

\* mergePdfs once arrayBuffer(), load() and copyPages() of one file have
\* settled: the rest of the loop body, the next turn of the for...of and, at
\* the end of the array, the statements after the loop up to save()
MergeFileSettles(i) ==
  LET t == ops[i]
      ok == LoadOk(t.cur, ignoreEncryption)
      encrypted == IsEncryptionError(t.cur, ignoreEncryption)
      u == [t EXCEPT !.seen = Append(t.seen, t.cur),
                     !.out = IF ok THEN Append(t.out, t.cur) ELSE t.out,
                     !.enc = IF encrypted THEN Append(t.enc, t.cur) ELSE t.enc]
      outcome == MergeOutcome(Len(u.enc), Len(files), DocPages(u.out), ignoreEncryption)
  IN  /\ Idle
      /\ UNCHANGED callVars
      /\ i <= Len(ops)
      /\ t.kind = "merge"
      /\ t.pc = "file"
      /\ IF ~ok /\ ~encrypted
         THEN /\ error' = ErrMerging
              /\ ops' = Finished(i)
              /\ last' = [Step("mergeDone", t.start, "failed") EXCEPT !.job = u]
         ELSE IF t.idx <= Len(t.arr)
         THEN /\ ops' = [ops EXCEPT ![i] = [u EXCEPT !.cur = t.arr[t.idx], !.idx = t.idx + 1]]
              /\ last' = Step("mergeFile", <<t.cur>>, "next")
              /\ UNCHANGED error
         ELSE IF outcome = "save"
         THEN /\ ops' = [ops EXCEPT ![i] = [u EXCEPT !.pc = "save"]]
              /\ last' = Step("mergeFile", <<t.cur>>, "saving")
              /\ UNCHANGED error
         ELSE /\ error' = MergeError(outcome, u.enc)
              /\ ops' = Finished(i)
              /\ last' = [Step("mergeDone", t.start, outcome) EXCEPT !.job = u]
      /\ UNCHANGED <<files, totalPages, endPage, draggedFile, hasProcessedFirstFile,
                     pageRangeInput, tasks, bubble>>

\* mergePdfs once mergedPdfDoc.save() has settled: downloadMergedPdf(pdfBytes)
MergeSaveSettles(i) ==
  LET t == ops[i]
  IN  /\ Idle
      /\ UNCHANGED callVars
      /\ i <= Len(ops)
      /\ t.kind = "merge"
      /\ t.pc = "save"
      /\ ops' = Finished(i)
      /\ last' = [Step("mergeDone", t.start, "download")
                    EXCEPT !.job = t,
                           !.dl = [kind |-> "merge", from |-> t.out, pages |-> <<>>,
                                   named |-> files]]
      /\ UNCHANGED <<files, totalPages, endPage, error, draggedFile,
                     hasProcessedFirstFile, pageRangeInput, tasks, bubble>>

\* the split test of a set that is never shown with the Split PDF button
SplitStartAlways(fs) == [error |-> NoError, started |-> TRUE]

\* the start of a split without its error = null
SplitStartKeepsError(fs) ==
  IF Len(fs) # 1
  THEN [error |-> ErrExactlyOne, started |-> FALSE]
  ELSE [error |-> error, started |-> TRUE]

\* splitPdfAtPages up to its first await: error = null, then the test
\* files.length !== 1
SplitStart(fs) ==
  IF Len(fs) # 1
  THEN [error |-> ErrExactlyOne, started |-> FALSE]
  ELSE [error |-> NoError, started |-> TRUE]

\* splitPdfAtPages(), on the Split PDF button, up to file.arrayBuffer()
SplitPdfAtPages ==
  /\ Idle
  /\ UNCHANGED callVars
  /\ SplitShown(files)
  /\ Len(ops) < MaxOps
  /\ error' = SplitStart(files).error
  /\ ops' = IF SplitStart(files).started
            THEN Append(ops, [NoJob EXCEPT !.kind = "split", !.pc = "load",
                                           !.cur = files[1], !.start = files])
            ELSE ops
  /\ last' = Step("split", <<>>, IF SplitStart(files).started THEN "started" ELSE "notOne")
  /\ UNCHANGED <<files, totalPages, endPage, draggedFile, hasProcessedFirstFile,
                 pageRangeInput, tasks, bubble>>

\* the tests after the load without the one of selectedPages.length
SplitSelectionNoEmptyTest(loaded, selection) ==
  IF ~loaded THEN "failed"
  ELSE IF ~selection.ok THEN "invalid"
  ELSE "saving"

\* what splitPdfAtPages does after the load: the catch of a failed load, the
\* catch of a throwing parsePageRanges, the test selectedPages.length === 0
SplitSelection(loaded, selection) ==
  IF ~loaded THEN "failed"
  ELSE IF ~selection.ok THEN "invalid"
  ELSE IF Len(selection.pages) = 0 THEN "empty"
  ELSE "saving"

\* the page count of the page's state in place of the loaded document's
SplitMaxPagesCached(loadedFile, cachedTotal) == cachedTotal

\* const totalPages = pdfDoc.getPageCount(): a local of splitPdfAtPages that
\* hides the totalPages of the page's state
SplitMaxPages(loadedFile, cachedTotal) == PageCount(loadedFile)

\* selectedPages.map(page => page - 1)
PageIndices(selectedPages) == [k \in 1..Len(selectedPages) |-> selectedPages[k] - 1]

\* splitPdfAtPages once arrayBuffer() and load() have settled: the page
\* specification is read and parsed now, against the loaded document; with a
\* selection, up to copyPages(pdfDoc, pageIndices)
SplitLoadSettles(i) ==
  /\ Idle
  /\ UNCHANGED callVars
  /\ i <= Len(ops)
  /\ ops[i].kind = "split"
  /\ ops[i].pc = "load"
  /\ \E selection \in {ParsePageRanges(pageRangeInput,
                                        SplitMaxPages(ops[i].cur, totalPages))} :
       LET t == ops[i]
           res == SplitSelection(LoadOk(t.cur, FALSE), selection)
           u == [t EXCEPT !.pc = "save", !.pages = selection.pages,
                          !.indices = PageIndices(selection.pages)]
       IN  IF res = "saving"
           THEN /\ ops' = [ops EXCEPT ![i] = u]
                /\ last' = [Step("splitLoaded", <<t.cur>>, res) EXCEPT !.job = u]
                /\ UNCHANGED error
           ELSE /\ error' = IF res = "failed" THEN ErrSplitting
                            ELSE IF res = "invalid" THEN selection.msg
                            ELSE ErrNoPages
                /\ ops' = Finished(i)
                /\ last' = [Step("splitDone", <<t.cur>>, res) EXCEPT !.job = t]
  /\ UNCHANGED <<files, totalPages, endPage, draggedFile, hasProcessedFirstFile,
                 pageRangeInput, tasks, bubble>>

\* splitPdfAtPages once copyPages() and save() have settled:
\* downloadSplitPdf(pdfBytes, selectedPages), which throws on files[0].name
\* when the set is empty by now
SplitSaveSettles(i) ==
  LET t == ops[i]
  IN  /\ Idle
      /\ UNCHANGED callVars
      /\ i <= Len(ops)
      /\ t.kind = "split"
      /\ t.pc = "save"
      /\ ops' = Finished(i)
      /\ IF Len(files) = 0
         THEN /\ error' = ErrSplitting
              /\ last' = [Step("splitDone", <<t.cur>>, "failed") EXCEPT !.job = t]
         ELSE /\ last' = [Step("splitDone", <<t.cur>>, "download")
                            EXCEPT !.job = t,
                                   !.dl = [kind |-> "split", from |-> <<t.cur>>,
                                           pages |-> t.pages, named |-> <<files[1]>>]]
              /\ UNCHANGED error
      /\ UNCHANGED <<files, totalPages, endPage, draggedFile, hasProcessedFirstFile,
                     pageRangeInput, tasks, bubble>>

\* ------------------------------------------------------- specification
Next ==
  \/ BubbledDrop
  \/ \E batch \in PickerBatches : HandleFileSelect(batch)
  \/ \E batch \in Batches : AppHandleDrop(batch)
  \/ \E batch \in Batches : InputAreaDrop(batch)
  \/ \E file \in FileIds : HandleDragStart(file)
  \/ \E file \in FileIds : HandleDrop(file)
  \/ HandleDragEnd
  \/ \E file \in FileIds : RemoveFile(file)
  \/ ResetAll
  \/ \E i \in 1..Len(tasks) : InspectionSettles(i)

Spec == Init /\ [][Next]_vars

\* ----------------------------------- specification of merge and split
\* The page with its Merge PDFs and Split PDF buttons and the page-range field;
\* files come from the picker.
OpNext ==
  \/ \E batch \in PickerBatches : HandleFileSelect(batch)
  \/ \E file \in FileIds : HandleDragStart(file)
  \/ \E file \in FileIds : HandleDrop(file)
  \/ \E file \in FileIds : RemoveFile(file)
  \/ ResetAll
  \/ \E i \in 1..Len(tasks) : InspectionSettles(i)
  \/ \E text \in EditTexts : EditPageRange(text)
  \/ MergePdfs
  \/ \E i \in 1..MaxOps : MergeFileSettles(i)
  \/ \E i \in 1..MaxOps : MergeSaveSettles(i)
  \/ SplitPdfAtPages
  \/ \E i \in 1..MaxOps : SplitLoadSettles(i)
  \/ \E i \in 1..MaxOps : SplitSaveSettles(i)

OpSpec == Init /\ [][OpNext]_vars

\* The i-th suspended operation is a split at its load: SplitLoadSettles(i) is
\* enabled.
SplitLoadPending(i) == i <= Len(ops) /\ ops[i].kind = "split" /\ ops[i].pc = "load"

\* Every file read and every call of the PDF library settles, and the event
\* loop then runs the continuation: weak fairness of each continuation of each
\* suspended operation.  The last conjunct is WF_vars(SplitLoadSettles(i)) with
\* its ENABLED written as the state predicate it is equal to.
Settling ==
  \A i \in 1..MaxOps :
    /\ WF_vars(MergeFileSettles(i))
    /\ WF_vars(MergeSaveSettles(i))
    /\ WF_vars(SplitSaveSettles(i))
    /\ ([]<>(~SplitLoadPending(i)) \/ []<><<SplitLoadSettles(i)>>_vars)

FairOpSpec == OpSpec /\ Settling

\* ------------------------------------- parsePageRanges on its own inputs
MaxSegs == 3
MaxPage == 4

\* The segments the inputs are made of: the text, and what it denotes: one
\* page, a range from-to, nothing (blank), or nothing well-formed (bad).
SegTable ==
  << [text |-> <<>>,                        kind |-> "blank", from |-> 0,  to |-> 0],
     [text |-> <<" ">>,                     kind |-> "blank", from |-> 0,  to |-> 0],
     [text |-> <<"1">>,                     kind |-> "page",  from |-> 1,  to |-> 1],
     [text |-> <<" ", "2", " ">>,           kind |-> "page",  from |-> 2,  to |-> 2],
     [text |-> <<"3">>,                     kind |-> "page",  from |-> 3,  to |-> 3],
     [text |-> <<"1", "0">>,                kind |-> "page",  from |-> 10, to |-> 10],
     [text |-> <<"1", "-", "1">>,           kind |-> "range", from |-> 1,  to |-> 1],
     [text |-> <<"1", "-", "3">>,           kind |-> "range", from |-> 1,  to |-> 3],
     [text |-> <<"2", "-", "4">>,           kind |-> "range", from |-> 2,  to |-> 4],
     [text |-> <<"0", "-", "2">>,           kind |-> "range", from |-> 0,  to |-> 2],
     [text |-> <<"5", "-", "3">>,           kind |-> "range", from |-> 5,  to |-> 3],
     [text |-> <<"3", "x">>,                kind |-> "bad",   from |-> 0,  to |-> 0],
     [text |-> <<"1", "-", "2", "-", "3">>, kind |-> "bad",   from |-> 0,  to |-> 0],
     [text |-> <<"2", "-">>,                kind |-> "bad",   from |-> 0,  to |-> 0] >>

\* the values of maxPages tried
PageLimits == 0..MaxPage \cup {10}

RECURSIVE InputText(_)
\* the input string: the segments' texts with commas between them
InputText(segs) ==
  IF Len(segs) = 0 THEN <<>>
  ELSE IF Len(segs) = 1 THEN SegTable[segs[1]].text
  ELSE SegTable[segs[1]].text \o <<",">> \o InputText(Tail(segs))

ParseInit ==
  /\ PageInit
  /\ parseSegs \in UNION {[1..n -> 1..Len(SegTable)] : n \in 1..MaxSegs}
  /\ parseMax \in PageLimits
  /\ parseResult = NotParsed
  /\ NameIdle

\* a call parsePageRanges(input, maxPages)
ParseCall ==
  /\ parseResult = NotParsed
  /\ parseResult' = ParsePageRanges(InputText(parseSegs), parseMax)
  /\ UNCHANGED <<pageVars, parseSegs, parseMax, nameVars>>

ParseNext == ParseCall

ParseSpec == ParseInit /\ [][ParseNext]_vars

\* ------------------------------ the download names on their own inputs
MaxNamed == 5
MaxSelPage == 7

\* n letters, the stem of a long file name
Stem(n) == [i \in 1..n |-> "x"]

DotPdf == <<".", "p", "d", "f">>

\* The file names tried, all of them names handleGlobalDrop lets through: short
\* ones, one with the extension in capitals, and long ones whose stems joined
\* have 47, 50, 51 and 53 characters.
NameTable ==
  << <<"a">> \o DotPdf,
     <<"b">> \o DotPdf,
     <<"A", ".", "P", "D", "F">>,
     Stem(23) \o DotPdf,
     Stem(24) \o DotPdf,
     Stem(26) \o DotPdf >>

\* the first index at which pat occurs in s, 0 when it does not
FirstMatch(s, pat) ==
  LET at(i) == i + Len(pat) - 1 <= Len(s) /\ SubSeq(s, i, i + Len(pat) - 1) = pat
  IN  IF \E i \in 1..Len(s) : at(i)
      THEN CHOOSE i \in 1..Len(s) : at(i) /\ \A j \in 1..(i - 1) : ~at(j)
      ELSE 0

\* string.replace(pat, ""), for a string pat: the first occurrence goes
RemoveFirst(s, pat) ==
  LET i == FirstMatch(s, pat)
  IN  IF i = 0 THEN s ELSE SubSeq(s, 1, i - 1) \o SubSeq(s, i + Len(pat), Len(s))

\* file.name.replace(".pdf", "")
WithoutPdf(name) == RemoveFirst(name, DotPdf)

RECURSIVE JoinWith(_, _)
\* array.join(sep), for an array of strings
JoinWith(strs, sep) ==
  IF Len(strs) = 0 THEN <<>>
  ELSE IF Len(strs) = 1 THEN strs[1]
  ELSE strs[1] \o sep \o JoinWith(Tail(strs), sep)

\* const maxLength = 50
maxLength == 50

\* fileNames of downloadMergedPdf before the length limit, for the names of
\* the entries of `files`
MergedFileNames(names) ==
  IF Len(names) <= 3
  THEN JoinWith([i \in 1..Len(names) |-> WithoutPdf(names[i])], <<"_">>)
  ELSE JoinWith([i \in 1..2 |-> WithoutPdf(names[i])], <<"_">>)
         \o <<"_", "a", "n", "d", "_">> \o ToStr(Len(names) - 2) \o <<"_", "m", "o", "r", "e">>

\* if (fileNames.length > maxLength) fileNames = fileNames.substring(0, maxLength - 3) + "..."
LimitLength(fileNames) ==
  IF Len(fileNames) > maxLength
  THEN SubSeq(fileNames, 1, maxLength - 3) \o <<".", ".", ".">>
  ELSE fileNames

\* a.download of downloadMergedPdf: `merged_${fileNames}.pdf`
MergedDownloadName(names) ==
  <<"m", "e", "r", "g", "e", "d", "_">> \o LimitLength(MergedFileNames(names)) \o DotPdf

\* pageDesc of downloadSplitPdf
PageDesc(selectedPages) ==
  IF Len(selectedPages) <= 5
  THEN JoinWith([i \in 1..Len(selectedPages) |-> ToStr(selectedPages[i])], <<"-">>)
  ELSE ToStr(selectedPages[1]) \o <<"-">> \o ToStr(selectedPages[Len(selectedPages)])

\* a.download of downloadSplitPdf: `${nameWithoutExt}_pages_${pageDesc}.pdf`
SplitDownloadName(originalName, selectedPages) ==
  WithoutPdf(originalName) \o <<"_", "p", "a", "g", "e", "s", "_">>
    \o PageDesc(selectedPages) \o DotPdf

\* the elements of a set of numbers in ascending order
Ascending(S) ==
  [k \in 1..Cardinality(S) |-> CHOOSE x \in S : Cardinality({y \in S : y < x}) = k - 1]

\* The calls tried: downloadMergedPdf with one to MaxNamed files in the set,
\* downloadSplitPdf with one file and a selection parsePageRanges can return for
\* a document of MaxSelPage pages.
NameInit ==
  /\ PageInit
  /\ parseSegs = <<>>
  /\ parseMax = 0
  /\ parseResult = NotParsed
  /\ nameResult = NotNamed
  /\ \/ /\ nameCall = "merge"
        /\ nameFiles \in UNION {[1..n -> 1..Len(NameTable)] : n \in 1..MaxNamed}
        /\ namePages = <<>>
     \/ /\ nameCall = "split"
        /\ nameFiles \in [1..1 -> 1..Len(NameTable)]
        /\ namePages \in {Ascending(S) : S \in (SUBSET (1..MaxSelPage)) \ {{}}}

\* the names of the entries of `files` at the call
NamesOfCall == [i \in 1..Len(nameFiles) |-> NameTable[nameFiles[i]]]

\* a call downloadMergedPdf(pdfBytes)
DownloadMergedPdf ==
  /\ nameCall = "merge"
  /\ nameResult = NotNamed
  /\ nameResult' = MergedDownloadName(NamesOfCall)
  /\ UNCHANGED <<pageVars, parseVars, nameCall, nameFiles, namePages>>

\* a call downloadSplitPdf(pdfBytes, selectedPages)
DownloadSplitPdf ==
  /\ nameCall = "split"
  /\ nameResult = NotNamed
  /\ nameResult' = SplitDownloadName(NamesOfCall[1], namePages)
  /\ UNCHANGED <<pageVars, parseVars, nameCall, nameFiles, namePages>>

NameNext ==
  \/ DownloadMergedPdf
  \/ DownloadSplitPdf

NameSpec == NameInit /\ [][NameNext]_vars

\* ----------------------------------------------------------- properties
\* The names of the entries of a file list.
NamesIn(s) == {FileName(s[i]) : i \in 1..Len(s)}

\* The 1-based position of x in s, for an x that s holds.
PositionIn(s, x) == CHOOSE i \in 1..Len(s) : s[i] = x

\* s with the entry at the position of x cut out, for an x that s holds once.
CutOut(s, x) == SubSeq(s, 1, PositionIn(s, x) - 1) \o SubSeq(s, PositionIn(s, x) + 1, Len(s))

\* The step before this state was a call of processNewFiles.
AddStep == last.op = "add"

\* Every file of the added batch had a name the set already held.
AllDuplicates == \A i \in 1..Len(last.arg) : FileName(last.arg[i]) \in NamesIn(last.pre)

\* C1: in every reachable state no two entries of the file set have the same
\* display name, also after an add whose batch holds one name twice.
C1_UniqueNames ==
  \A i, j \in 1..Len(files) : i # j => FileName(files[i]) # FileName(files[j])

\* C2: removing the first entry of a set of two or more keeps the order of the
\* rest and starts an inspection of the new first entry.
C2_RemoveFirstReinspects ==
  (last.op = "remove" /\ Len(last.pre) >= 2 /\ last.arg[1] = last.pre[1])
    => /\ files = Tail(last.pre)
       /\ Len(tasks) = last.ptasks + 1
       /\ tasks[Len(tasks)].file = files[1]

\* C3: when the inspection started by an add fails, the handler ends with the
\* file set as it was and the inspection error in the error state.
C3_InspectionErrorReported ==
  (last.op = "addInspected" /\ last.res = "failed")
    => /\ files = last.pre
       /\ error # NoError

\* C4: an add whose files all have names already in the set leaves the set as
\* it was, starts no inspection and sets the duplicate-files error.
C4_AllDuplicatesRejected ==
  (AddStep /\ AllDuplicates)
    => /\ files = last.pre
       /\ Len(tasks) = last.ptasks
       /\ error = ErrDuplicate

C4_Witness ==
  /\ AddStep
  /\ AllDuplicates
  /\ Len(last.arg) = 2
  /\ Len(last.pre) >= 2
  /\ last.perr = NoError

\* C5: an add with at least one file whose name is not in the set S leaves S
\* followed by exactly the files of the batch whose names are not in S, in the
\* batch's order.
C5_AppendsUniqueInOrder ==
  (AddStep /\ ~AllDuplicates)
    => LET S == last.pre
           N == last.arg
           suffix == SubSeq(files, Len(S) + 1, Len(files))
       IN  /\ Len(files) >= Len(S)
           /\ SubSeq(files, 1, Len(S)) = S
           /\ Range(suffix) = {f \in Range(N) : FileName(f) \notin NamesIn(S)}
           /\ Cardinality(Range(suffix)) = Len(suffix)
           /\ \A i, j \in 1..Len(suffix) :
                i < j => PositionIn(N, suffix[i]) < PositionIn(N, suffix[j])

C5_Witness ==
  /\ AddStep
  /\ Len(last.pre) >= 1
  /\ Len(last.arg) = 2
  /\ FileName(last.arg[1]) \in NamesIn(last.pre)
  /\ FileName(last.arg[2]) \notin NamesIn(last.pre)
  /\ files = Append(last.pre, last.arg[2])

\* The step before this state was a drop of the dragged file last.arg[1] on the
\* entry last.arg[2].
ReorderStep == last.op = "reorder" /\ last.arg[1] # NoFile

\* C6: a reorder of two distinct files of the set puts the moved file at the
\* index the target had and keeps the order of all other files.
C6_ReorderMovesToTargetIndex ==
  (/\ ReorderStep
   /\ last.arg[1] # last.arg[2]
   /\ last.arg[1] \in Range(last.pre)
   /\ last.arg[2] \in Range(last.pre))
    => /\ Len(files) = Len(last.pre)
       /\ files[PositionIn(last.pre, last.arg[2])] = last.arg[1]
       /\ CutOut(files, last.arg[1]) = CutOut(last.pre, last.arg[1])
       /\ (last.pre = <<1, 2, 3>> /\ last.arg = <<1, 3>>) => files = <<2, 3, 1>>

C6_Witness ==
  /\ ReorderStep
  /\ last.pre = <<1, 2, 3>>
  /\ last.arg = <<1, 3>>
  /\ files = <<2, 3, 1>>

\* C7: a reorder whose moved file is the target, or whose moved file or target
\* is not in the set, leaves the set as it was.
C7_ReorderNoOp ==
  (/\ ReorderStep
   /\ \/ last.arg[1] = last.arg[2]
      \/ last.arg[1] \notin Range(last.pre)
      \/ last.arg[2] \notin Range(last.pre))
    => files = last.pre

\* C8: a remove cuts out exactly the entry that is the file and keeps the
\* others in order; filtering out a file the set does not hold changes nothing.
C8_RemoveExactlyOne ==
  /\ last.op = "remove" => files = CutOut(last.pre, last.arg[1])
  /\ \A f \in FileIds \ Range(files) : FilterOut(files, f) = files

C8_Witness ==
  /\ last.op = "remove"
  /\ Len(last.pre) = 3
  /\ last.arg[1] = last.pre[2]
  /\ files = <<last.pre[1], last.pre[3]>>

\* C9: a remove that empties the set leaves page count 0, an empty page
\* specification, the first-file-inspected flag false and no error message.
C9_RemoveLastResetsAll ==
  (last.op = "remove" /\ Len(files) = 0)
    => /\ totalPages = 0
       /\ pageRangeInput = <<>>
       /\ hasProcessedFirstFile = FALSE
       /\ error = NoError

\* C10: a reset leaves the file set empty, page count 0, the page specification
\* empty, the error cleared and the first-file-inspected flag false.
C10_ResetClearsAll ==
  last.op = "reset"
    => /\ files = <<>>
       /\ totalPages = 0
       /\ pageRangeInput = <<>>
       /\ error = NoError
       /\ hasProcessedFirstFile = FALSE

C10_Witness ==
  /\ last.op = "reset"
  /\ Len(last.pre) >= 2
  /\ last.perr # NoError
  /\ Len(tasks) > 0

\* ------------------------------------------ properties of parsePageRanges
\* The i-th segment of the input of the call.
Seg(i) == SegTable[parseSegs[i]]

\* parsePageRanges has been called and has returned or thrown.
Parsed == parseResult # NotParsed

\* The input is empty or white space only.
BlankInput == Len(parseSegs) = 1 /\ Seg(1).kind = "blank"

\* The i-th segment is a page or a range that is not within 1..parseMax.
OutOfBounds(i) ==
  /\ Seg(i).kind \in {"page", "range"}
  /\ (Seg(i).from < 1 \/ Seg(i).to > parseMax \/ Seg(i).from > Seg(i).to)

\* Every segment is a page or a range within 1..parseMax.
WellFormedInBounds ==
  \A i \in 1..Len(parseSegs) : Seg(i).kind \in {"page", "range"} /\ ~OutOfBounds(i)

\* The pages the segments denote.
DenotedPages == UNION {Seg(i).from .. Seg(i).to : i \in 1..Len(parseSegs)}

StrictlyIncreasing(s) == \A i \in 1..(Len(s) - 1) : s[i] < s[i + 1]

\* C11: whenever parsePageRanges returns, the returned sequence is strictly
\* increasing and every element is in 1..maxPages.
C11_SelectionSortedInBounds ==
  (Parsed /\ parseResult.ok)
    => /\ StrictlyIncreasing(parseResult.pages)
       /\ \A i \in 1..Len(parseResult.pages) : parseResult.pages[i] \in 1..parseMax

C11_Witness ==
  /\ parseSegs = <<5, 3, 4>>
  /\ parseMax = 10
  /\ parseResult.ok
  /\ parseResult.pages = <<1, 2, 3>>

\* C12: for an input whose segments are all pages or ranges within 1..maxPages,
\* parsePageRanges returns the ascending sequence of the union of their pages.
C12_UnionAscending ==
  (Parsed /\ WellFormedInBounds)
    => /\ parseResult.ok
       /\ StrictlyIncreasing(parseResult.pages)
       /\ Range(parseResult.pages) = DenotedPages
       /\ parseSegs = <<7>> => parseResult.pages = <<1>>
       /\ parseSegs = <<5, 3, 4>> => parseResult.pages = <<1, 2, 3>>
       /\ parseSegs = <<8, 9>> => parseResult.pages = <<1, 2, 3, 4>>

C12_Witness ==
  /\ parseSegs = <<8, 9>>
  /\ parseMax = 10
  /\ parseResult.ok
  /\ parseResult.pages = <<1, 2, 3, 4>>

\* C13: parsePageRanges throws, and returns no pages, whenever some segment is
\* a page or a range outside 1..maxPages or a range with start > end.
C13_OutOfBoundsFails ==
  (Parsed /\ \E i \in 1..Len(parseSegs) : OutOfBounds(i))
    => /\ ~parseResult.ok
       /\ parseResult.pages = <<>>
       /\ parseResult.msg # ""

C13_Witness ==
  /\ parseSegs = <<3, 11>>
  /\ parseMax = 10
  /\ Parsed
  /\ ~parseResult.ok

\* C14: parsePageRanges throws for every non-blank input with a segment that is
\* neither a non-negative integer nor a pair start-end of two of them.
C14_MalformedFails ==
  (/\ Parsed
   /\ ~BlankInput
   /\ \E i \in 1..Len(parseSegs) : Seg(i).kind \in {"bad", "blank"})
    => ~parseResult.ok

\* C15: for every maxPages, 0 included, parsePageRanges returns the empty
\* selection for an empty or white-space-only input.
C15_BlankGivesEmpty ==
  (Parsed /\ BlankInput) => (parseResult.ok /\ parseResult.pages = <<>>)

C15_Witness ==
  /\ parseSegs = <<2>>
  /\ parseMax = 0
  /\ Parsed
  /\ parseResult.ok

\* ------------------------------------------- properties of merge and split
\* The step before this state ran the continuation of a split after its load.
SplitLoadStep ==
  \/ last.op = "splitLoaded"
  \/ last.op = "splitDone" /\ last.job.pc = "load"

\* What parsePageRanges gives for the page specification that step read.
SelectionRead == ParsePageRanges(last.pinput, PageCount(last.arg[1]))

\* That step loaded the document and found the page specification invalid or empty.
SplitRejected ==
  /\ SplitLoadStep
  /\ LoadOk(last.arg[1], FALSE)
  /\ (~SelectionRead.ok \/ SelectionRead.pages = <<>>)

\* C16: a split whose page specification does not parse, or gives no page, ends
\* there: no download, now or later, the file set and the page specification as
\* they were, the error message set; the message for the empty selection is
\* not the message of any parse failure.
C16_RejectedSplitDoesNothing ==
  SplitRejected
    => /\ last.op = "splitDone"
       /\ last.dl = NoDownload
       /\ Len(ops) = last.pops - 1
       /\ files = last.pre
       /\ pageRangeInput = last.pinput
       /\ error # NoError
       /\ SelectionRead.ok => error = ErrNoPages
       /\ ~SelectionRead.ok => (error = SelectionRead.msg /\ error # ErrNoPages)

C16_Witness ==
  /\ SplitRejected
  /\ ~SelectionRead.ok
  /\ last.job.gap = 1
  /\ error = "Page 3 is outside valid range (1-2)"

\* C17: the document of a merge download holds the files of the file set as of
\* the click on Merge PDFs, each once and in that order.
C17_MergeHoldsStartFiles ==
  (last.op = "mergeDone" /\ last.res = "download") => last.dl.from = last.arg

\* The files a finished merge iterated whose load failed, for a reason other
\* than encryption and for encryption.
BrokenSeen == {f \in Range(last.job.seen) : FileTable[f].kind = "corrupt"}

EncryptedSeen == {f \in Range(last.job.seen) : FileTable[f].kind = "encrypted"}

\* C18: a merge ends with a download only if no file failed for a reason other
\* than encryption, the document has a page, and no file failed for encryption
\* or ignore-encryption is on and some file was not rejected; otherwise it ends
\* with no download and the error message set.
C18_MergeDownloadConditions ==
  /\ (last.op = "mergeDone" /\ last.res = "download")
       => /\ last.dl # NoDownload
          /\ BrokenSeen = {}
          /\ DocPages(last.dl.from) > 0
          /\ \/ EncryptedSeen = {}
             \/ ignoreEncryption /\ Range(last.job.seen) # EncryptedSeen
  /\ (last.op = "mergeDone" /\ last.res # "download")
       => /\ last.dl = NoDownload
          /\ error # NoError
  /\ \A nEncrypted \in 0..MaxFiles, nFiles \in 0..MaxFiles, pageCount \in 0..2,
        ignoreEnc \in BOOLEAN :
       MergeOutcome(nEncrypted, nFiles, pageCount, ignoreEnc) = "save"
         <=> /\ pageCount > 0
             /\ nEncrypted = 0 \/ (ignoreEnc /\ nEncrypted # nFiles)

C18_Witness ==
  /\ last.op = "mergeDone"
  /\ last.res = "protected"
  /\ EncryptedSeen # {}
  /\ Range(last.job.out) # {}
  /\ last.dl = NoDownload

\* The step before this state ended a merge or a split.
OpDone == last.op \in {"mergeDone", "splitDone"}

\* That step triggered a download and left the error message alone, or
\* triggered none and set the error message.
DownloadOrError ==
  \/ last.dl # NoDownload /\ error = last.perr
  \/ last.dl = NoDownload /\ error # NoError

\* C19: as long as reads and PDF-library calls settle, a merge or split that
\* has started ends, whatever handler runs meanwhile, and it ends with either a
\* download or the error message set; nothing but its own end takes it away.
C19_OperationsFinish ==
  /\ (Len(ops) > 0) ~> (OpDone /\ Len(ops) = last.pops - 1 /\ DownloadOrError)
  /\ [](OpDone => DownloadOrError)
  /\ [][Len(ops') < Len(ops) => (last'.op \in {"mergeDone", "splitDone"})]_vars

C19_Witness ==
  /\ OpDone
  /\ last.job.gap = 1
  /\ last.pre # last.job.start
  /\ last.dl # NoDownload

\* C20: what can be started depends on the size of the file set only: nothing
\* with no file, a split with one, a merge with two or more; a split started on
\* another set than one of one file sets the error and starts nothing.
C20_ModeBySize ==
  /\ EmptyShown(files) <=> Len(files) = 0
  /\ SplitShown(files) <=> Len(files) = 1
  /\ MergeShown(files) <=> Len(files) >= 2
  /\ last.op = "split" => Len(last.pre) = 1
  /\ last.op = "merge" => Len(last.pre) >= 2
  /\ Len(files) # 1 => SplitStart(files) = [error |-> ErrExactlyOne, started |-> FALSE]

C20_Witness ==
  /\ last.op = "split"
  /\ Len(last.pre) = 1
  /\ Len(ops) = 1
  /\ error = NoError

\* ------------------------------------------ properties of the download names
\* A download function has been called.
Named == nameResult # NotNamed

\* The index of the last "." of a name, 0 when it has none.
LastDot(name) ==
  IF \E i \in 1..Len(name) : name[i] = "."
  THEN CHOOSE i \in 1..Len(name) : name[i] = "." /\ \A j \in (i + 1)..Len(name) : name[j] # "."
  ELSE 0

\* A file name without its extension.
StripExtension(name) ==
  IF LastDot(name) > 1 THEN SubSeq(name, 1, LastDot(name) - 1) ELSE name

\* The extension-stripped names of the files of the call.
StemsOfCall == [i \in 1..Len(nameFiles) |-> StripExtension(NamesOfCall[i])]

\* The name the files of a merge call give before any truncation.
JoinedStems ==
  IF Len(nameFiles) <= 3
  THEN JoinWith(StemsOfCall, <<"_">>)
  ELSE JoinWith(SubSeq(StemsOfCall, 1, 2), <<"_">>)
         \o <<"_", "a", "n", "d", "_">> \o ToStr(Len(nameFiles) - 2)
         \o <<"_", "m", "o", "r", "e">>

\* s starts with p; s ends with p.
StartsWith(s, p) == Len(p) <= Len(s) /\ SubSeq(s, 1, Len(p)) = p

EndsWith(s, p) == Len(p) <= Len(s) /\ SubSeq(s, Len(s) - Len(p) + 1, Len(s)) = p

\* The download name without its first n and its last four characters.
Inner(n) == SubSeq(nameResult, n + 1, Len(nameResult) - 4)

\* C21: the merge download is named "merged_" + name + ".pdf"; name is the
\* extension-stripped names of all files joined with "_" for up to three files,
\* and those of the first two joined with "_" and followed by "_and_{N-2}_more"
\* for more; a name of more than 50 characters is cut and ends in "...", never
\* exceeding 50 characters, a shorter one is left as it is.
C21_MergedDownloadName ==
  (nameCall = "merge" /\ Named)
    => /\ StartsWith(nameResult, <<"m", "e", "r", "g", "e", "d", "_">>)
       /\ EndsWith(nameResult, DotPdf)
       /\ Len(Inner(7)) <= 50
       /\ Len(JoinedStems) <= 50 => Inner(7) = JoinedStems
       /\ Len(JoinedStems) > 50
            => /\ EndsWith(Inner(7), <<".", ".", ".">>)
               /\ StartsWith(JoinedStems, SubSeq(Inner(7), 1, Len(Inner(7)) - 3))
       /\ nameFiles = <<1, 2, 1, 2, 1>>
            => Inner(7) = <<"a", "_", "b", "_", "a", "n", "d", "_", "3", "_", "m", "o", "r", "e">>

RECURSIVE Hyphenated(_)
\* Page numbers in decimal with hyphens between them.
Hyphenated(pages) ==
  IF Len(pages) = 1 THEN ToStr(pages[1])
  ELSE ToStr(pages[1]) \o <<"-">> \o Hyphenated(Tail(pages))

\* C22: the split download is named by the extension-stripped name of the
\* source file, "_pages_", the description of the selection and ".pdf"; the
\* description is all page numbers joined with hyphens for up to five pages and
\* first-last for more.
C22_SplitDownloadName ==
  (nameCall = "split" /\ Named)
    => nameResult =
         StemsOfCall[1] \o <<"_", "p", "a", "g", "e", "s", "_">>
           \o (IF Len(namePages) <= 5 THEN Hyphenated(namePages)
               ELSE ToStr(namePages[1]) \o <<"-">> \o ToStr(namePages[Len(namePages)]))
           \o DotPdf

\* ------------------------------------- properties of the page-count display
\* No inspection is suspended, the set is not empty and the page records that
\* its first file was inspected with success.
FirstFileInspected ==
  /\ Len(tasks) = 0
  /\ Len(files) > 0
  /\ hasProcessedFirstFile

\* C23: whenever no inspection is in flight, the set is non-empty and the last
\* inspection of its first file succeeded, the stored page count is the page
\* count of the current first file and the page specification, which no one
\* edits here, is "1-{that count}"; so also after adds, removes and reorders
\* that change which file is first.
C23_FirstFileDrivesPageCount ==
  FirstFileInspected
    => /\ totalPages = PageCount(files[1])
       /\ pageRangeInput = DefaultRange(PageCount(files[1]))

\* The step before this state was an add that put files into the set.
AddedStep == AddStep /\ last.res = "added"

\* That add started an inspection, of the first file of the set.
InspectionStarted ==
  /\ Len(tasks) = last.ptasks + 1
  /\ tasks[Len(tasks)].file = files[1]
  /\ tasks[Len(tasks)].src = "processNewFiles"

\* C24: the first-file-inspected flag is set by a successful inspection of an
\* add, cleared when the set is emptied or reset, and changed by nothing else;
\* an add that puts files into the set starts an inspection of the first file
\* exactly when the set then has one file or the flag is not set; so an add onto
\* a set with an inspected first file starts nothing and leaves page count and
\* page specification alone, and an add after a failed inspection inspects again.
C24_AddInspectsWhenNeeded ==
  /\ [](AddedStep
          => /\ InspectionStarted <=> (Len(files) = 1 \/ ~hasProcessedFirstFile)
             /\ ~InspectionStarted => Len(tasks) = last.ptasks
             /\ (totalPages = last.ptotal /\ pageRangeInput = last.pinput))
  /\ []((last.op = "addInspected" /\ last.res = "loaded") => hasProcessedFirstFile)
  /\ []((last.op \in {"reset", "remove"} /\ Len(files) = 0) => ~hasProcessedFirstFile)
  /\ [][hasProcessedFirstFile' # hasProcessedFirstFile
          => \/ last'.op = "addInspected" /\ last'.res = "loaded"
             \/ last'.op \in {"reset", "remove"} /\ Len(files') = 0]_vars

C24_Witness ==
  /\ AddedStep
  /\ Len(last.pre) >= 1
  /\ ~hasProcessedFirstFile
  /\ InspectionStarted
  /\ last.ptasks = 0
  /\ \E f \in Range(last.pre) : ~LoadOk(f, FALSE)

\* The step before this state took a split to copyPages.
CopyStep == last.op = "splitLoaded"

\* C25: in every split that gets to copyPages, the indices it hands over are
\* the pages parsePageRanges gives for the page specification, each less one,
\* in ascending order, and each is in 0..n-1 for the page count n of the
\* document this split loaded, whatever page count the page has stored.
C25_CopyIndicesOfLoadedDocument ==
  CopyStep
    => LET n == PageCount(last.arg[1])
           selection == ParsePageRanges(last.pinput, n)
           indices == last.job.indices
       IN  /\ selection.ok
           /\ Len(indices) = Len(selection.pages)
           /\ \A k \in 1..Len(indices) : indices[k] = selection.pages[k] - 1
           /\ StrictlyIncreasing(indices)
           /\ \A k \in 1..Len(indices) : indices[k] \in 0..(n - 1)

C25_Witness ==
  /\ CopyStep
  /\ totalPages = 2
  /\ PageCount(last.arg[1]) = 3
  /\ last.pinput = <<"3", ",", "1">>
  /\ last.job.indices = <<0, 2>>

\* C26: in every reachable state, also when a reset or a remove has run while
\* an inspection was in flight and the inspection has settled since, an empty
\* file set goes with page count 0, an empty page specification and the
\* first-file-inspected flag false.
C26_EmptySetIsCleared ==
  Len(files) = 0
    => /\ totalPages = 0
       /\ pageRangeInput = <<>>
       /\ ~hasProcessedFirstFile

\* C27: the name of every merge or split download is made from the files whose
\* pages the document holds, whatever add, remove, reorder or reset has changed
\* the set while the operation was suspended; and a split that has copied and
\* saved its pages ends with its download, not with an error.
C27_NameFromProcessedFiles ==
  /\ (OpDone /\ last.dl # NoDownload) => last.dl.named = last.dl.from
  /\ (last.op = "splitDone" /\ last.job.pc = "save") => last.dl # NoDownload

\* ------------------------------------------------- properties of the drops
\* A drop on the file-input area has added files and its event is on its way to
\* the document's listener.
AreaDropAdded == Len(bubble) > 0 /\ AddedStep

\* No dropped file has a name the set held before the drop.
DroppedNamesNew == \A i \in 1..Len(bubble) : FileName(bubble[i]) \notin NamesIn(last.pre)

\* C28: a drop of PDF files is added once: after the file-input area has added
\* the files of a drop, the document's listener does not process the same drop
\* again, and a drop of files whose names the set did not hold does not end in
\* the duplicate-files error.
C28_DropAddsOnce ==
  [][AreaDropAdded
       => /\ last'.op # "add"
          /\ files' = files
          /\ DroppedNamesNew => error' # ErrDuplicate]_vars

\* The steps of mergePdfs and splitPdfAtPages, by the names they are recorded with.
OpStepNames == {"merge", "split", "mergeFile", "mergeDone", "splitLoaded", "splitDone"}

\* C29: no step of a merge or a split changes the file set, its order, the
\* stored page count or the page specification, nor any other state of the
\* page but the error message; and the step that starts one clears the error
\* message.
C29_OperationsWriteOnlyError ==
  [][last'.op \in OpStepNames
       => /\ files' = files
          /\ totalPages' = totalPages
          /\ pageRangeInput' = pageRangeInput
          /\ endPage' = endPage
          /\ hasProcessedFirstFile' = hasProcessedFirstFile
          /\ draggedFile' = draggedFile
          /\ tasks' = tasks
          /\ (last'.op \in {"merge", "split"} /\ last'.res = "started") => error' = NoError]_vars

C29_Witness ==
  /\ last.op = "split"
  /\ last.res = "started"
  /\ last.perr = ErrDuplicate
  /\ error = NoError
  /\ files = last.pre
  /\ pageRangeInput = last.pinput

====
